---- MODULE Spec2Model ----
(***************************************************************************)
(* Model of the UI compiler (UICompiler, compiler/compiler.ts) and of the  *)
(* element / namespace builders (builders/element.ts, builders/namespace.ts)*)
(* of mcbe-ts-ui.                                                          *)
(*                                                                         *)
(* Text is modelled as a sequence of tokens: a path such as                *)
(* "ui/__generated__/hud.json" is <<"ui","/","__generated__","/","hud",    *)
(* ".json">>.  The separators "/" and "\\", the marker "__generated__" and  *)
(* the suffixes ".ts" and ".json" are tokens of their own, so that          *)
(* String.includes, String.replace and the functions of node's path module  *)
(* are computed on the text, as the code computes them.                     *)
(***************************************************************************)
EXTENDS Integers, Sequences, FiniteSets, TLC

\* ------------------------------------------------------------------------
\* Bounds of the model
\* ------------------------------------------------------------------------

\* Number of definitions the discovered source files export together.
MaxDefs == 2

\* Number of entries of the pre-existing _ui_defs.json at most.
MaxIndex == 2

\* Number of compile() invocations.
MaxRuns == 2

\* ------------------------------------------------------------------------
\* Text helpers
\* ------------------------------------------------------------------------

\* The value of an absent optional property (undefined).
Undefined == <<"<undefined>">>

\* The marker loadExistingUiDefs looks for.
GeneratedMarker == "__generated__"

RECURSIVE SeqToSet(_)
SeqToSet(s) == IF s = << >> THEN {} ELSE {Head(s)} \cup SeqToSet(Tail(s))

\* String.prototype.includes(token).
Includes(str, tok) == \E i \in 1..Len(str) : str[i] = tok

\* Array.prototype.includes(entry).
ArrayIncludes(arr, x) == \E i \in 1..Len(arr) : arr[i] = x

\* str.replace(/\\/g, "/").
ReplaceBackslashes(str) ==
    [i \in 1..Len(str) |-> IF str[i] = "\\" THEN "/" ELSE str[i]]

\* ------------------------------------------------------------------------
\* node's path module, for relative inputs, on the two platforms
\* ------------------------------------------------------------------------

Platforms == {"posix", "win32"}

PathSep(plat) == IF plat = "win32" THEN "\\" ELSE "/"

IsSep(plat, tok) == tok = "/" \/ (plat = "win32" /\ tok = "\\")

\* The segments of a path text: the runs of tokens between separators.
RECURSIVE SplitFrom(_, _, _, _)
SplitFrom(plat, str, cur, acc) ==
    IF str = << >>
    THEN IF cur = << >> THEN acc ELSE Append(acc, cur)
    ELSE IF IsSep(plat, Head(str))
         THEN SplitFrom(plat, Tail(str), << >>,
                        IF cur = << >> THEN acc ELSE Append(acc, cur))
         ELSE SplitFrom(plat, Tail(str), Append(cur, Head(str)), acc)

Split(plat, str) == SplitFrom(plat, str, << >>, << >>)

\* path.normalize on segments: "." is dropped, ".." removes the segment
\* before it; at the start of a relative path ".." stays, at the root it
\* is dropped.
RECURSIVE NormFrom(_, _, _)
NormFrom(segs, acc, absolute) ==
    IF segs = << >> THEN acc
    ELSE LET s == Head(segs) IN
         IF s = <<".">> THEN NormFrom(Tail(segs), acc, absolute)
         ELSE IF s = <<"..">>
              THEN IF acc # << >> /\ acc[Len(acc)] # <<"..">>
                   THEN NormFrom(Tail(segs), SubSeq(acc, 1, Len(acc) - 1), absolute)
                   ELSE IF absolute
                        THEN NormFrom(Tail(segs), acc, absolute)
                        ELSE NormFrom(Tail(segs), Append(acc, s), absolute)
              ELSE NormFrom(Tail(segs), Append(acc, s), absolute)

NormSegs(segs, absolute) == NormFrom(segs, << >>, absolute)

\* The text of a list of segments, joined by the platform's separator.
RECURSIVE Render(_, _)
Render(plat, segs) ==
    IF segs = << >> THEN << >>
    ELSE IF Len(segs) = 1 THEN segs[1]
         ELSE segs[1] \o <<PathSep(plat)>> \o Render(plat, Tail(segs))

\* path.join(a, b, ...) of relative texts: the non-empty parts are joined
\* and the result is normalized; "." when nothing is left.
RECURSIVE ConcatSegs(_, _)
ConcatSegs(plat, parts) ==
    IF parts = << >> THEN << >>
    ELSE Split(plat, Head(parts)) \o ConcatSegs(plat, Tail(parts))

PathJoin(plat, parts) ==
    LET segs == NormSegs(ConcatSegs(plat, parts), FALSE)
    IN  IF segs = << >> THEN <<".">> ELSE Render(plat, segs)

\* process.cwd(), as the segments below the filesystem root.
Cwd == << <<"work">> >>

\* path.resolve(text) of a relative text: the absolute path, as segments.
PathResolve(plat, str) == NormSegs(Cwd \o Split(plat, str), TRUE)

\* path.relative(from, to) of two absolute paths (segments): the text
\* that leads from the one to the other; "" when they are equal.
RECURSIVE CommonLen(_, _)
CommonLen(a, b) ==
    IF a = << >> \/ b = << >> \/ Head(a) # Head(b) THEN 0
    ELSE 1 + CommonLen(Tail(a), Tail(b))

PathRelative(plat, from, to) ==
    LET n == CommonLen(from, to)
        ups == [i \in 1..(Len(from) - n) |-> <<"..">>]
    IN  Render(plat, ups \o SubSeq(to, n + 1, Len(to)))

\* path.dirname of an absolute path (segments).
PathDirname(abs) == IF abs = << >> THEN << >> ELSE SubSeq(abs, 1, Len(abs) - 1)

\* path.basename(text, ".ts"): the last segment, without a trailing ".ts"
\* (a segment that is ".ts" alone is kept).
PathBasename(plat, str, ext) ==
    LET segs == Split(plat, str)
        last == IF segs = << >> THEN << >> ELSE segs[Len(segs)]
    IN  IF Len(last) > 1 /\ last[Len(last)] = ext
        THEN SubSeq(last, 1, Len(last) - 1)
        ELSE last

\* ------------------------------------------------------------------------
\* Compiler configuration (CompilerConfig, DEFAULT_CONFIG)
\* ------------------------------------------------------------------------

\* DEFAULT_CONFIG.
DEFAULT_CONFIG ==
    [ sourceDir   |-> <<"ui">>,
      outputDir   |-> <<"ui", "/", GeneratedMarker>>,
      uiDefsPath  |-> <<"ui", "/", "_ui_defs", ".json">>,
      globalVariablesPath |-> <<"ui", "/", "_global_variables", ".json">>,
      prettyPrint |-> TRUE,
      clean       |-> FALSE ]

\* The configurations a compiler is constructed with: the defaults, the
\* custom output directory of the documentation ("dist/ui", with clean),
\* and a source root that names one file, with and without its extension.
Configs ==
    { DEFAULT_CONFIG,
      [DEFAULT_CONFIG EXCEPT !.outputDir = <<"dist", "/", "ui">>,
                             !.uiDefsPath = <<"dist", "/", "_ui_defs", ".json">>,
                             !.prettyPrint = FALSE,
                             !.clean = TRUE],
      [DEFAULT_CONFIG EXCEPT !.sourceDir = <<"ui", "/", "hud", ".ts">>],
      [DEFAULT_CONFIG EXCEPT !.sourceDir = <<"ui", "/", "hud">>] }

\* The source roots of discovery: the directory, a directory named with
\* the exclusion marker, a file and an excluded file by their exact paths
\* and without their extension, a root that does not exist; and the
\* directory with a cleaned output directory.
RootConfigs ==
    { [DEFAULT_CONFIG EXCEPT !.sourceDir = root] :
        root \in { <<"ui">>, <<"ui", "/", "_", "lib">>,
                   <<"ui", "/", "hud", ".ts">>, <<"ui", "/", "hud">>,
                   <<"ui", "/", "_", "shared", ".ts">>, <<"ui", "/", "_", "shared">>,
                   <<"ui", "/", "none">> } }
        \cup { [DEFAULT_CONFIG EXCEPT !.clean = TRUE] }

\* config.sourcePattern.test(name), for the default /^(?!_).*\.ts$/.
SourcePatternTest(name) ==
    /\ name # << >>
    /\ name[1] # "_"
    /\ name[Len(name)] = ".ts"

\* ------------------------------------------------------------------------
\* Source files and what their modules export (UIDefinition, UIExport)
\* ------------------------------------------------------------------------

\* A compiled namespace object, as far as JSON.stringify is concerned: its
\* name, and whether it holds a value JSON.stringify throws on (a cycle).
NsObject(name, circular) == [name |-> name, circular |-> circular]

\* The namespace of an export that has no namespace property (a
\* NamespaceBuilder instance): undefined.
NoNamespace == NsObject("<undefined>", FALSE)

\* A UIDefinition.
UIDefinition(ns, filename, subdir, vanilla) ==
    [ namespace |-> ns, filename |-> filename, subdir |-> subdir,
      isVanillaOverride |-> vanilla ]

\* defineUI(name, builder, {filename, subdir}).
defineUI(name, filename, subdir) ==
    UIDefinition(NsObject(name, FALSE), filename, subdir, FALSE)

\* redefineUI(screen, builder): the filename is the screen's last path
\* part, the subdir is the screen's, the definition is flagged.
redefineUI(nsName, filename, subdir) ==
    UIDefinition(NsObject(nsName, FALSE), filename, subdir, TRUE)

\* The definitions source files export in the model.
DefChoices ==
    { defineUI("plain", Undefined, Undefined),
      defineUI("custom", <<"custom">>, <<"phud">>),
      defineUI("escape", <<"b">>, <<"..">>),
      redefineUI("hud", <<"hud_screen">>, Undefined),
      UIDefinition(NsObject("cyclic", TRUE), Undefined, Undefined, FALSE) }

\* Definitions with every kind of override of the output place: none, a
\* filename, a subdir, a nested subdir, both, an empty subdir, an empty
\* filename, a subdir that leads out of the output directory.
PlanDefChoices ==
    { defineUI("plain", Undefined, Undefined),
      defineUI("named", <<"custom">>, Undefined),
      defineUI("placed", Undefined, <<"phud">>),
      defineUI("nested", <<"custom">>, <<"phud", "/", "deep">>),
      defineUI("flat", Undefined, << >>),
      defineUI("unnamed", << >>, Undefined),
      defineUI("escape", <<"b">>, <<"..">>) }

\* What the UIExport type admits as a default export: a definition, a
\* NamespaceBuilder instance (it has filename and subdir, and no namespace
\* property), a definition whose namespace holds a cycle.
ExportChoices ==
    { defineUI("plain", Undefined, Undefined),
      UIDefinition(NoNamespace, Undefined, Undefined, FALSE),
      UIDefinition(NsObject("cyclic", TRUE), Undefined, Undefined, FALSE) }

\* Definitions whose output lies inside the output directory and outside.
IndexDefChoices ==
    { defineUI("plain", Undefined, Undefined),
      defineUI("escape", <<"b">>, <<"..">>) }

RECURSIVE SeqsUpTo(_, _)
SeqsUpTo(S, n) ==
    IF n = 0 THEN {<< >>}
    ELSE LET shorter == SeqsUpTo(S, n - 1)
         IN  shorter \cup {Append(s, x) : s \in shorter, x \in S}

\* What loading a module yields: it throws, it has no default export, or
\* its default export is a list of definitions (a single definition is a
\* list of one).
Module(kind, defs) == [kind |-> kind, defs |-> defs]

\* The files of the source tree below ui/.
HudFile == Cwd \o << <<"ui">>, <<"hud", ".ts">> >>
MenuFile == Cwd \o << <<"ui">>, <<"sub">>, <<"menu", ".ts">> >>
SharedFile == Cwd \o << <<"ui">>, <<"_", "shared", ".ts">> >>

SourceTree == <<HudFile, SharedFile, MenuFile>>

\* An entry of fs.readdirSync(dir, {withFileTypes: true}).
Dirent(name, isDirectory) == [name |-> name, isDirectory |-> isDirectory]

\* The directories of that tree: the entries of each, in the order
\* readdirSync returns them.
SourceDirents ==
    (Cwd \o << <<"ui">> >>) :>
        << Dirent(<<"hud", ".ts">>, FALSE), Dirent(<<"_", "shared", ".ts">>, FALSE),
           Dirent(<<"sub">>, TRUE) >>
    @@ (Cwd \o << <<"ui">>, <<"sub">> >>) :> << Dirent(<<"menu", ".ts">>, FALSE) >>

\* A deeper tree: an excluded file next to menu.ts in sub/, and a
\* directory whose own name begins with the exclusion marker.
PartFile == Cwd \o << <<"ui">>, <<"sub">>, <<"_", "part", ".ts">> >>
ToolFile == Cwd \o << <<"ui">>, <<"_", "lib">>, <<"tool", ".ts">> >>

\* The files of that tree, sorted by path (Array.prototype.sort of the
\* path texts: "_" sorts before the lower-case letters).
DeepTree == <<ToolFile, SharedFile, HudFile, PartFile, MenuFile>>

\* The sequences that enumerate the set S, each element once.
Orderings(S) ==
    {seq \in [1..Cardinality(S) -> S] : \A i, j \in DOMAIN seq : seq[i] = seq[j] => i = j}

\* The directories of the deeper tree, in every order a filesystem may
\* enumerate the entries of each.
DeepDirents ==
    { (Cwd \o << <<"ui">> >>) :> ui
      @@ (Cwd \o << <<"ui">>, <<"sub">> >>) :> sub
      @@ (Cwd \o << <<"ui">>, <<"_", "lib">> >>) :> << Dirent(<<"tool", ".ts">>, FALSE) >> :
        ui \in Orderings({ Dirent(<<"hud", ".ts">>, FALSE),
                           Dirent(<<"_", "shared", ".ts">>, FALSE),
                           Dirent(<<"sub">>, TRUE), Dirent(<<"_", "lib">>, TRUE) }),
        sub \in Orderings({ Dirent(<<"menu", ".ts">>, FALSE),
                            Dirent(<<"_", "part", ".ts">>, FALSE) }) }

\* ------------------------------------------------------------------------
\* The pre-existing _ui_defs.json
\* ------------------------------------------------------------------------

\* Entries a pre-existing index holds: a vendor entry, a stale entry of an
\* earlier run in the output directory, the entry of hud.ts (regenerated
\* by this run when hud.ts still exports a plain definition), and an entry
\* of someone else's __generated__ directory.
IndexChoices(cfg) ==
    { <<"ui", "/", "vendor_screen", ".json">>,
      cfg.outputDir \o <<"/", "old", ".json">>,
      cfg.outputDir \o <<"/", "hud", ".json">>,
      <<"vendor", "/", GeneratedMarker, "/", "v", ".json">> }

\* The file: absent, unparsable, or {"ui_defs": [...]}.
IndexFile(kind, defs) == [kind |-> kind, ui_defs |-> defs]

IndexFiles(cfg) ==
    {IndexFile("absent", << >>), IndexFile("unparsable", << >>)}
        \cup {IndexFile("json", d) : d \in SeqsUpTo(IndexChoices(cfg), MaxIndex)}

\* ------------------------------------------------------------------------
\* State of the compiler
\* ------------------------------------------------------------------------

VARIABLES
    platform,         \* the platform node runs on
    config,           \* UICompiler.config
    modules,          \* what each file of the source tree exports
    dirents,          \* the directories of the source tree: directory -> entries
    staleFiles,       \* history: the files on disk when the compiler was constructed
    registered,       \* history: the global variables addGlobalVariable was given
    indexFile,        \* the _ui_defs.json on disk
    outFiles,         \* the files on disk below the workspace: path -> text
    outDirs,          \* the directories on disk that the compiler made
    compiledFiles,    \* UICompiler.compiledFiles
    errors,           \* UICompiler.errors
    existingUiDefs,   \* UICompiler.existingUiDefs
    globalVariables,  \* UICompiler.globalVariables
    pc,               \* where each compile() invocation stands
    sourceFiles,      \* compile(): const sourceFiles, of each invocation
    fileIdx,          \* compile(): position of the for loop, of each invocation
    parsed,           \* loadExistingUiDefs(): parsed.ui_defs || [], of each invocation
    result,           \* the CompilationResult each invocation returned
    builders,         \* the ElementBuilder instances, in order of construction
    namespaces,       \* the NamespaceBuilder instances, by namespace name
    declared,         \* history: how each builder's extension was last declared
    handedOut,        \* history: the tokens addToNamespace has returned
    elementProperties,\* one ElementBuilder's this.properties: keys in order, values
    arrays,           \* the array objects this.properties refers to
    snapshots         \* the objects build() has returned

compilerVars ==
    << platform, config, modules, dirents, staleFiles, registered, indexFile, outFiles, outDirs, compiledFiles, errors,
       existingUiDefs, globalVariables, pc, sourceFiles, fileIdx, parsed, result >>

elementVars == << elementProperties, arrays, snapshots >>

builderVars == << builders, namespaces, declared, handedOut, elementVars >>

Calls == 1..MaxRuns

NoResult == [files |-> << >>, uiDefs |-> << >>, errors |-> << >>, hasGlobals |-> FALSE]

\* ------------------------------------------------------------------------
\* UICompiler: the methods
\* ------------------------------------------------------------------------

\* loadExistingUiDefs(): the entries of the index file without those that
\* contain "__generated__"; nothing when the file is absent or unparsable.
ExistingUiDefsOf(file) ==
    IF file.kind = "json"
    THEN SelectSeq(file.ui_defs, LAMBDA entry : ~Includes(entry, GeneratedMarker))
    ELSE << >>

\* A cleanOutputDir that unlinks the .json files directly in the output
\* directory and leaves its subdirectories alone.
CleanedOutFilesJsonOnly(plat, cfg, files) ==
    LET outputDir == PathResolve(plat, cfg.outputDir)
        Removed(p) ==
            /\ Len(p) = Len(outputDir) + 1
            /\ SubSeq(p, 1, Len(outputDir)) = outputDir
            /\ p[Len(p)][Len(p[Len(p)])] = ".json"
        kept == {p \in DOMAIN files : ~Removed(p)}
    IN  [p \in kept |-> files[p]]

\* cleanOutputDir(): the .json files directly in the output directory and
\* everything below its subdirectories are removed.
CleanedOutFiles(plat, cfg, files) ==
    LET outputDir == PathResolve(plat, cfg.outputDir)
        Below(p) == Len(p) > Len(outputDir) /\ SubSeq(p, 1, Len(outputDir)) = outputDir
        Removed(p) ==
            /\ Below(p)
            /\ \/ Len(p) > Len(outputDir) + 1
               \/ p[Len(p)][Len(p[Len(p)])] = ".json"
        kept == {p \in DOMAIN files : ~Removed(p)}
    IN  [p \in kept |-> files[p]]

\* findSourceFilesRecursive(dir, files): what is pushed to files, entry by
\* entry in the order readdirSync returns them; a directory is descended
\* into where it stands, a file is pushed when its name matches the pattern.
RECURSIVE FindSourceFilesRecursive(_, _, _)
FindSourceFilesRecursive(tree, dir, from) ==
    IF from > Len(tree[dir]) THEN << >>
    ELSE LET entry == tree[dir][from]
             fullPath == Append(dir, entry.name)
             pushed ==
                 IF entry.isDirectory THEN FindSourceFilesRecursive(tree, fullPath, 1)
                 ELSE IF SourcePatternTest(entry.name) THEN <<fullPath>> ELSE << >>
         IN  pushed \o FindSourceFilesRecursive(tree, dir, from + 1)

\* fs.existsSync(p) && fs.statSync(p).isFile()
IsFile(tree, p) ==
    /\ p # << >>
    /\ PathDirname(p) \in DOMAIN tree
    /\ \E i \in 1..Len(tree[PathDirname(p)]) :
           tree[PathDirname(p)][i] = Dirent(p[Len(p)], FALSE)

\* findSourceFiles(): the root itself when it is a file that matches the
\* pattern, the root with ".ts" appended when that is a file, nothing when
\* the root does not exist, otherwise the matching files below the root,
\* in enumeration order.
SourceFilesOf(plat, cfg, tree) ==
    LET sourceDir == PathResolve(plat, cfg.sourceDir)
        sourceWithTs ==
            IF sourceDir = << >> THEN << >>
            ELSE Append(PathDirname(sourceDir), Append(sourceDir[Len(sourceDir)], ".ts"))
    IN  IF IsFile(tree, sourceDir)
        THEN IF SourcePatternTest(sourceDir[Len(sourceDir)]) THEN <<sourceDir>> ELSE << >>
        ELSE IF IsFile(tree, sourceWithTs)
             THEN <<sourceWithTs>>
             ELSE IF sourceDir \notin DOMAIN tree THEN << >>
                  ELSE FindSourceFilesRecursive(tree, sourceDir, 1)

\* What JSON.stringify returns for undefined: undefined, not a string.
NoText == [pretty |-> FALSE, of |-> NoNamespace]

\* JSON.stringify(value, null, 2) or JSON.stringify(value): the text.
JsonStringify(value, pretty) ==
    IF value = NoNamespace THEN NoText ELSE [pretty |-> pretty, of |-> value]

\* JSON.stringify throws on a value that holds a cycle.
StringifyThrows(ns) == ns.circular

\* A processDefinition that places every file without a subdir override
\* at the root of the output directory, whatever directory its source is in.
ProcessDefinitionFlat(plat, cfg, def, sourcePath) ==
    LET sourceBasename == PathBasename(plat, sourcePath, ".ts")
        filename ==
            IF def.filename # Undefined /\ def.filename # << >>
            THEN def.filename ELSE sourceBasename
        subdir == IF def.subdir # Undefined THEN def.subdir ELSE << >>
        outputPath ==
            IF subdir # << >>
            THEN PathJoin(plat, <<cfg.outputDir, subdir, Append(filename, ".json")>>)
            ELSE PathJoin(plat, <<cfg.outputDir, Append(filename, ".json")>>)
    IN  [ sourcePath |-> sourcePath,
          outputPath |-> outputPath,
          def        |-> def,
          json       |-> JsonStringify(def.namespace, cfg.prettyPrint) ]

\* processDefinition(def, sourcePath): the CompiledUIFile pushed.
ProcessDefinition(plat, cfg, def, sourcePath) ==
    LET sourceDir == PathResolve(plat, cfg.sourceDir)
        sourceBasename == PathBasename(plat, sourcePath, ".ts")
        filename ==
            IF def.filename # Undefined /\ def.filename # << >>
            THEN def.filename ELSE sourceBasename
        sourceRelativeDir ==
            PathRelative(plat, sourceDir, PathDirname(PathResolve(plat, sourcePath)))
        subdir == IF def.subdir # Undefined THEN def.subdir ELSE sourceRelativeDir
        outputPath ==
            IF subdir # << >>
            THEN PathJoin(plat, <<cfg.outputDir, subdir, Append(filename, ".json")>>)
            ELSE PathJoin(plat, <<cfg.outputDir, Append(filename, ".json")>>)
    IN  [ sourcePath |-> sourcePath,
          outputPath |-> outputPath,
          def        |-> def,
          json       |-> JsonStringify(def.namespace, cfg.prettyPrint) ]

\* The for loop of compileFile over the definitions: those processed
\* before the first one that throws.
RECURSIVE ProcessedDefs(_)
ProcessedDefs(defs) ==
    IF defs = << >> \/ StringifyThrows(Head(defs).namespace) THEN << >>
    ELSE <<Head(defs)>> \o ProcessedDefs(Tail(defs))

\* compileFile(sourcePath), after the import settled: the files pushed to
\* compiledFiles and the errors pushed to errors.
CompileFileFiles(plat, cfg, mod, sourcePath) ==
    LET relativePath == PathRelative(plat, Cwd, sourcePath)
        done == IF mod.kind = "defs" THEN ProcessedDefs(mod.defs) ELSE << >>
    IN  [i \in 1..Len(done) |-> ProcessDefinition(plat, cfg, done[i], relativePath)]

CompileFileErrors(plat, mod, sourcePath) ==
    LET relativePath == PathRelative(plat, Cwd, sourcePath)
    IN  IF mod.kind = "throws"
        THEN << [file |-> relativePath, message |-> "import"] >>
        ELSE IF mod.kind = "defs" /\ Len(ProcessedDefs(mod.defs)) < Len(mod.defs)
             THEN << [file |-> relativePath, message |-> "stringify"] >>
             ELSE << >>

\* writeOutputFiles(): every compiled file is written at its resolved
\* output path, in order (a later file of the same path overwrites).
RECURSIVE WrittenFiles(_, _, _)
WrittenFiles(plat, files, disk) ==
    IF files = << >> THEN disk
    ELSE LET outputPath == PathResolve(plat, Head(files).outputPath)
             written == [p \in DOMAIN disk \cup {outputPath} |->
                            IF p = outputPath THEN Head(files).json ELSE disk[p]]
         IN  WrittenFiles(plat, Tail(files), written)

\* A generateUiDefs that pushes the entry of every compiled file without
\* asking whether the list holds it.
RECURSIVE UiDefEntriesUnchecked(_, _)
UiDefEntriesUnchecked(uiDefEntries, files) ==
    IF files = << >> THEN uiDefEntries
    ELSE UiDefEntriesUnchecked(
             Append(uiDefEntries, ReplaceBackslashes(Head(files).outputPath)),
             Tail(files))

\* generateUiDefs(): the existing entries, then the entry of every
\* compiled file that the list does not hold yet.
RECURSIVE UiDefEntries(_, _)
UiDefEntries(uiDefEntries, files) ==
    IF files = << >> THEN uiDefEntries
    ELSE LET entry == ReplaceBackslashes(Head(files).outputPath)
         IN  UiDefEntries(
                 IF ~ArrayIncludes(uiDefEntries, entry)
                 THEN Append(uiDefEntries, entry) ELSE uiDefEntries,
                 Tail(files))

\* The modules of a list of files that export at most budget definitions
\* together.
ModulesUpTo(defChoices, n) ==
    {Module("throws", << >>), Module("noDefault", << >>)}
        \cup {Module("defs", d) : d \in SeqsUpTo(defChoices, n)}

RECURSIVE ModulesOfFiles(_, _, _)
ModulesOfFiles(files, defChoices, budget) ==
    IF files = << >> THEN {<< >>}
    ELSE UNION { { (Head(files) :> m) @@ rest :
                     rest \in ModulesOfFiles(Tail(files), defChoices, budget - Len(m.defs)) } :
                 m \in ModulesUpTo(defChoices, budget) }

\* What the files of the source tree export: the files discovery finds
\* export at most MaxDefs definitions together; a file that discovery
\* does not find is never loaded, and exports one plain definition.
ModuleAssignments(plat, cfg, defChoices) ==
    LET found == SourceFilesOf(plat, cfg, SourceDirents)
        others == SeqToSet(SourceTree) \ SeqToSet(found)
        plain == Module("defs", <<defineUI("plain", Undefined, Undefined)>>)
    IN  { m @@ [f \in others |-> plain] : m \in ModulesOfFiles(found, defChoices, MaxDefs) }

\* The compiler after construction, with the modules drawn from the
\* definitions defChoices and the index file from the kinds indexKinds.
InitCompilerWith(defChoices, indexKinds) ==
    /\ platform \in Platforms
    /\ config \in Configs
    /\ modules \in ModuleAssignments(platform, config, defChoices)
    /\ dirents = SourceDirents
    /\ staleFiles = << >>
    /\ registered = << >>
    /\ indexFile \in {x \in IndexFiles(config) : x.kind \in indexKinds}
    /\ outFiles = << >>
    /\ outDirs = {}
    /\ compiledFiles = << >>
    /\ errors = << >>
    /\ existingUiDefs = << >>
    /\ globalVariables = << >>
    /\ pc = [c \in Calls |-> "idle"]
    /\ sourceFiles = [c \in Calls |-> << >>]
    /\ fileIdx = [c \in Calls |-> 0]
    /\ parsed = [c \in Calls |-> << >>]
    /\ result = [c \in Calls |-> NoResult]

InitCompiler == InitCompilerWith(DefChoices, {"absent", "unparsable", "json"})

\* The directories fs.mkdirSync(dir, {recursive: true}) makes: dir and
\* the directories above it.
MkdirRecursive(dir) == {SubSeq(dir, 1, n) : n \in 1..Len(dir)}

\* Files an earlier use of the workspace may have left: in the output
\* directory a .json file, the output of hud.ts, a file that is not
\* .json, a .json file in the subdirectory of sub/menu.ts and a file two
\* directories down; and a .json file next to the output directory.
StalePaths(plat, cfg) ==
    LET outputDir == PathResolve(plat, cfg.outputDir)
    IN  { outputDir \o << <<"old", ".json">> >>,
          outputDir \o << <<"hud", ".json">> >>,
          outputDir \o << <<"notes", ".txt">> >>,
          outputDir \o << <<"sub">>, <<"old", ".json">> >>,
          outputDir \o << <<"gone">>, <<"deep">>, <<"readme", ".txt">> >>,
          PathDirname(outputDir) \o << <<"keep", ".json">> >> }

\* The text of such a file.
StaleText == JsonStringify(NsObject("stale", FALSE), TRUE)

\* ------------------------------------------------------------------------
\* UICompiler.compile(): the steps of one invocation
\* ------------------------------------------------------------------------

\* The invocations of the model follow one another: an invocation starts
\* when the one before it has returned.
MayStart(c) ==
    /\ pc[c] = "idle"
    /\ \A d \in Calls : d < c => pc[d] \in {"done", "rejected"}

\* What no step of compile() changes.
configVars == << platform, config, modules, dirents, staleFiles, registered >>

\* compile(): "Reset state".
ResetState(c) ==
    /\ compiledFiles' = << >>
    /\ errors' = << >>
    /\ globalVariables' = << >>
    /\ pc' = [pc EXCEPT ![c] = "loadExistingUiDefs"]
    /\ UNCHANGED << builderVars, configVars, indexFile, outFiles, outDirs, existingUiDefs,
                    sourceFiles, fileIdx, parsed, result >>

\* compile(), called when the invocations before it have settled.
Compile(c) ==
    /\ MayStart(c)
    /\ ResetState(c)

\* compile(), called on the same instance while an earlier invocation is
\* suspended in "await jiti.import(...)".
CompileOverlapping(c) ==
    /\ pc[c] = "idle"
    /\ \A d \in Calls : d < c => pc[d] # "idle"
    /\ \E d \in Calls : d < c /\ pc[d] = "import"
    /\ ResetState(c)

\* this.loadExistingUiDefs()
LoadExistingUiDefs(c) ==
    /\ pc[c] = "loadExistingUiDefs"
    /\ parsed' = [parsed EXCEPT ![c] =
                   IF indexFile.kind = "json" THEN indexFile.ui_defs ELSE << >>]
    /\ existingUiDefs' = ExistingUiDefsOf(indexFile)
    /\ pc' = [pc EXCEPT ![c] = "ensureOutputDir"]
    /\ UNCHANGED << builderVars, configVars, indexFile, outFiles, outDirs, compiledFiles, errors,
                    globalVariables, sourceFiles, fileIdx, result >>

\* this.ensureOutputDir(); then "if (this.config.clean) this.cleanOutputDir()"
EnsureOutputDir(c) ==
    /\ pc[c] = "ensureOutputDir"
    /\ outDirs' = outDirs \cup MkdirRecursive(PathResolve(platform, config.outputDir))
    /\ pc' = [pc EXCEPT ![c] = IF config.clean THEN "cleanOutputDir" ELSE "findSourceFiles"]
    /\ UNCHANGED << builderVars, configVars, indexFile, outFiles, compiledFiles, errors,
                    existingUiDefs, globalVariables, sourceFiles, fileIdx, parsed, result >>

\* this.cleanOutputDir()
CleanOutputDir(c) ==
    /\ pc[c] = "cleanOutputDir"
    /\ outFiles' = CleanedOutFiles(platform, config, outFiles)
    /\ LET outputDir == PathResolve(platform, config.outputDir)
       IN  outDirs' = {d \in outDirs :
                          ~(Len(d) > Len(outputDir) /\ SubSeq(d, 1, Len(outputDir)) = outputDir)}
    /\ pc' = [pc EXCEPT ![c] = "findSourceFiles"]
    /\ UNCHANGED << builderVars, configVars, indexFile, compiledFiles, errors,
                    existingUiDefs, globalVariables, sourceFiles, fileIdx, parsed, result >>

\* const sourceFiles = this.findSourceFiles()
FindSourceFiles(c) ==
    /\ pc[c] = "findSourceFiles"
    /\ sourceFiles' = [sourceFiles EXCEPT ![c] = SourceFilesOf(platform, config, dirents)]
    /\ fileIdx' = [fileIdx EXCEPT ![c] = 1]
    /\ pc' = [pc EXCEPT ![c] = "compileFile"]
    /\ UNCHANGED << builderVars, configVars, indexFile, outFiles, outDirs, compiledFiles, errors,
                    existingUiDefs, globalVariables, parsed, result >>

\* A for loop of compile() that leaves out the last source file.
CompileFileSkippingLast(c) ==
    /\ pc[c] = "compileFile"
    /\ pc' = [pc EXCEPT ![c] =
                 IF fileIdx[c] < Len(sourceFiles[c]) THEN "import" ELSE "writeOutputFiles"]
    /\ UNCHANGED << builderVars, configVars, indexFile, outFiles, outDirs, compiledFiles, errors,
                    existingUiDefs, globalVariables, sourceFiles, fileIdx, parsed, result >>

\* The for loop of compile(): compileFile(sourceFile) runs up to its
\* "await jiti.import(...)"; with no file left the loop ends.
CompileFile(c) ==
    /\ pc[c] = "compileFile"
    /\ pc' = [pc EXCEPT ![c] =
                 IF fileIdx[c] <= Len(sourceFiles[c]) THEN "import" ELSE "writeOutputFiles"]
    /\ UNCHANGED << builderVars, configVars, indexFile, outFiles, outDirs, compiledFiles, errors,
                    existingUiDefs, globalVariables, sourceFiles, fileIdx, parsed, result >>

\* compileFile(sourceFile) after the import settled: the definitions are
\* processed, what is thrown is caught and pushed to errors.
CompileFileSettled(c) ==
    /\ pc[c] = "import"
    /\ LET sourcePath == sourceFiles[c][fileIdx[c]]
           mod == modules[sourcePath]
       IN  /\ compiledFiles' =
                  compiledFiles \o CompileFileFiles(platform, config, mod, sourcePath)
           /\ errors' = errors \o CompileFileErrors(platform, mod, sourcePath)
    /\ fileIdx' = [fileIdx EXCEPT ![c] = @ + 1]
    /\ pc' = [pc EXCEPT ![c] = "compileFile"]
    /\ UNCHANGED << builderVars, configVars, indexFile, outFiles, outDirs, existingUiDefs,
                    globalVariables, sourceFiles, parsed, result >>

\* The for loop of writeOutputFiles: the number of passes that begin;
\* fs.writeFileSync(outputPath, undefined, "utf-8") throws a TypeError.
WritePasses(files) ==
    IF \E i \in 1..Len(files) : files[i].json = NoText
    THEN CHOOSE i \in 1..Len(files) :
             /\ files[i].json = NoText
             /\ \A j \in 1..(i - 1) : files[j].json # NoText
    ELSE Len(files)

\* this.writeOutputFiles(): what it throws is not caught, and compile()
\* rejects.
WriteOutputFiles(c) ==
    /\ pc[c] = "writeOutputFiles"
    /\ LET passes == WritePasses(compiledFiles)
           throws == \E i \in 1..Len(compiledFiles) : compiledFiles[i].json = NoText
           written == SubSeq(compiledFiles, 1, IF throws THEN passes - 1 ELSE passes)
       IN  /\ outFiles' = WrittenFiles(platform, written, outFiles)
           /\ outDirs' = outDirs \cup UNION {
                  MkdirRecursive(PathDirname(PathResolve(platform, compiledFiles[i].outputPath))) :
                      i \in 1..passes}
           /\ pc' = [pc EXCEPT ![c] = IF throws THEN "rejected" ELSE "generateUiDefs"]
    /\ UNCHANGED << builderVars, configVars, indexFile, compiledFiles, errors, existingUiDefs,
                    globalVariables, sourceFiles, fileIdx, parsed, result >>

\* const uiDefs = this.generateUiDefs(); return {...}
GenerateUiDefs(c) ==
    /\ pc[c] = "generateUiDefs"
    /\ LET uiDefs == UiDefEntries(existingUiDefs, compiledFiles)
       IN  /\ indexFile' = IndexFile("json", uiDefs)
           /\ result' = [result EXCEPT ![c] =
                  [ files |-> compiledFiles, uiDefs |-> uiDefs, errors |-> errors,
                    hasGlobals |-> DOMAIN globalVariables # {} ]]
    /\ pc' = [pc EXCEPT ![c] = "done"]
    /\ UNCHANGED << builderVars, configVars, outFiles, outDirs, compiledFiles, errors,
                    existingUiDefs, globalVariables, sourceFiles, fileIdx, parsed >>

\* No invocation of compile() is running: each has not started, is
\* suspended in "await jiti.import(...)", or has settled. Only then can
\* the caller's code run.
CallerRuns == \A c \in Calls : pc[c] \in {"idle", "import", "done", "rejected"}

\* addGlobalVariable: name.startsWith("$") ? name : "$" + name
GlobalKey(name) == IF name # << >> /\ Head(name) = "$" THEN name ELSE <<"$">> \o name

\* compiler.addGlobalVariable(name, value)
AddGlobalVariable(name, value) ==
    /\ CallerRuns
    /\ globalVariables' = (GlobalKey(name) :> value) @@ globalVariables
    /\ registered' = (GlobalKey(name) :> value) @@ registered
    /\ UNCHANGED << builderVars, platform, config, modules, dirents, staleFiles, indexFile,
                    outFiles, outDirs, compiledFiles, errors, existingUiDefs, pc,
                    sourceFiles, fileIdx, parsed, result >>

\* compiler.writeGlobalVariables(): nothing without a variable or without
\* a configured path; compile() does not call it.
WriteGlobalVariables ==
    /\ CallerRuns
    /\ outFiles' =
           IF DOMAIN globalVariables = {} \/ config.globalVariablesPath = Undefined
           THEN outFiles
           ELSE LET globalVarsPath == PathResolve(platform, config.globalVariablesPath)
                    json == JsonStringify(globalVariables, config.prettyPrint)
                IN  [p \in DOMAIN outFiles \cup {globalVarsPath} |->
                        IF p = globalVarsPath THEN json ELSE outFiles[p]]
    /\ UNCHANGED << builderVars, configVars, indexFile, outDirs, compiledFiles, errors,
                    existingUiDefs, globalVariables, pc, sourceFiles, fileIdx, parsed, result >>

NextCompiler ==
    \E c \in Calls :
        \/ Compile(c)
        \/ LoadExistingUiDefs(c)
        \/ EnsureOutputDir(c)
        \/ CleanOutputDir(c)
        \/ FindSourceFiles(c)
        \/ CompileFile(c)
        \/ CompileFileSettled(c)
        \/ WriteOutputFiles(c)
        \/ GenerateUiDefs(c)


\* ------------------------------------------------------------------------
\* Element builders (builders/element.ts)
\* ------------------------------------------------------------------------

\* Names of elements and of namespaces, and the kinds of elements.
Names == {"", "base", "child"}

NsNames == {"ns", "lib"}

\* undefined, where a string is expected.
NoValue == "<undefined>"

ElementTypes == {"panel", NoValue}

\* The property bag: the keys in insertion order with their values.
PropHas(props, key) == \E i \in 1..Len(props) : props[i].key = key

PropSet(props, key, value) ==
    IF PropHas(props, key)
    THEN [i \in 1..Len(props) |->
             IF props[i].key = key THEN [key |-> key, value |-> value] ELSE props[i]]
    ELSE Append(props, [key |-> key, value |-> value])

PropDelete(props, key) == SelectSeq(props, LAMBDA p : p.key # key)

\* new ElementBuilder(name, type)
ElementBuilder(name, type) ==
    [ elementName |-> name,
      type        |-> type,
      extendsRef  |-> NoValue,
      properties  |-> IF type # NoValue THEN <<[key |-> "type", value |-> type]>> ELSE << >> ]

\* builder.getName()
getName(b) == b.elementName

\* A getFullName that appends "@" and the reference whenever one is set.
getFullNameOfAnyReference(b) ==
    IF b.extendsRef # NoValue
    THEN b.elementName \o "@" \o b.extendsRef
    ELSE b.elementName

\* builder.getFullName(): "if (this.extendsRef)" is false for undefined
\* and for the empty string.
getFullName(b) ==
    IF b.extendsRef # NoValue /\ b.extendsRef # ""
    THEN b.elementName \o "@" \o b.extendsRef
    ELSE b.elementName

\* builder.extends(reference, shouldClearType)
extends(b, reference, shouldClearType) ==
    [b EXCEPT !.extendsRef = reference,
              !.properties = IF shouldClearType THEN PropDelete(@, "type") ELSE @,
              !.type = IF shouldClearType THEN NoValue ELSE @]

\* new NamespaceElement(builder, namespaceName): the builder is held by
\* reference (its position in builders).
NamespaceElement(builder, namespaceName) ==
    [builder |-> builder, namespaceName |-> namespaceName]

\* element.getQualifiedName()
getQualifiedName(element) ==
    element.namespaceName \o "." \o getName(builders[element.builder])

\* An extendsFrom that refers to the base by its full name.
extendsFromFullName(b, element) ==
    extends(b, getFullName(builders[element.builder]),
            builders[element.builder].type # NoValue)

\* builder.extendsFrom(element)
extendsFrom(b, element) ==
    extends(b, getName(builders[element.builder]),
            builders[element.builder].type # NoValue)

\* An extendsExternallyFrom that refers to the base by its bare name.
extendsExternallyFromBare(b, element) ==
    extends(b, getName(builders[element.builder]), builders[element.builder].type # NoValue)

\* builder.extendsExternallyFrom(element)
extendsExternallyFrom(b, element) ==
    extends(b, getQualifiedName(element), builders[element.builder].type # NoValue)

\* builder._createForExtension(name): a builder of the same class, its
\* type cleared.
createForExtension(name) ==
    [ElementBuilder(name, NoValue) EXCEPT !.properties = PropDelete(@, "type")]

\* builder.build(): a copy of the property bag.
buildElement(b) == b.properties

\* ------------------------------------------------------------------------
\* Namespace builders (builders/namespace.ts)
\* ------------------------------------------------------------------------

\* Map.prototype.set(key, value): the value of a key the map holds is
\* replaced where it stands, a new key goes last.
MapHas(map, key) == \E i \in 1..Len(map) : map[i].key = key

\* A Map.set that deletes the key the map holds and inserts it anew, last.
MapSetMovingLast(map, key, value) ==
    Append(SelectSeq(map, LAMBDA m : m.key # key), [key |-> key, value |-> value])

MapSet(map, key, value) ==
    IF MapHas(map, key)
    THEN [i \in 1..Len(map) |->
             IF map[i].key = key THEN [key |-> key, value |-> value] ELSE map[i]]
    ELSE Append(map, [key |-> key, value |-> value])

\* new NamespaceBuilder(name)
NamespaceBuilder ==
    [ builders    |-> << >>,   \* Map of full name -> builder (by reference)
      rawElements |-> << >>,   \* Map of key -> raw object
      animations  |-> << >>,   \* Map of name -> built animation
      variables   |-> << >>,   \* Map of "$name|default" -> value
      elements    |-> << >> ]  \* the elements record: name -> NamespaceElement

\* ns._addInternal(builder)
addInternal(ns, id) ==
    [ns EXCEPT !.builders = MapSet(@, getFullName(builders[id]), id)]

\* The values a serialized namespace holds: a string, or an object with
\* its members.
JsString(text) == [json |-> "string", text |-> text, members |-> << >>]

JsObject(members) == [json |-> "object", text |-> "", members |-> members]

\* The array index a property key stands for ("0", "1", ...), or -1: an
\* object lists such keys first, in ascending order, whenever they are set.
ArrayIndex(key) == CASE key = "0" -> 0 [] key = "1" -> 1 [] OTHER -> -1

\* An assignment that moves a key the object holds to the end.
ObjectSetMovingLast(obj, key, value) ==
    Append(SelectSeq(obj, LAMBDA m : m.key # key), [key |-> key, value |-> value])

\* result[key] = value on an object: a key the object holds keeps its
\* place and takes the value; a new array index goes after the smaller
\* indices; any other new key goes last.
ObjectSet(obj, key, value) ==
    LET member == [key |-> key, value |-> value]
        Before(m) == ArrayIndex(m.key) >= 0 /\ ArrayIndex(m.key) < ArrayIndex(key)
    IN  IF MapHas(obj, key) THEN MapSet(obj, key, value)
        ELSE IF ArrayIndex(key) >= 0
             THEN SelectSeq(obj, Before) \o <<member>>
                      \o SelectSeq(obj, LAMBDA m : ~Before(m))
             ELSE Append(obj, member)

\* The for loops of build(): the entries of a map assigned to the result
\* in the order of the map.
RECURSIVE ObjectAssign(_, _)
ObjectAssign(obj, entries) ==
    IF entries = << >> THEN obj
    ELSE ObjectAssign(ObjectSet(obj, Head(entries).key, Head(entries).value), Tail(entries))

\* The builders map with every builder built now.
BuiltElements(ns) ==
    [i \in 1..Len(ns.builders) |->
        [ key   |-> ns.builders[i].key,
          value |-> JsObject(buildElement(builders[ns.builders[i].value])) ]]

\* A build() that assigns the raw elements before the built elements.
buildNamespaceRawFirst(name) ==
    LET ns == namespaces[name]
        named == <<[key |-> "namespace", value |-> JsString(name)]>>
    IN  ObjectAssign(
            ObjectAssign(
                ObjectAssign(
                    ObjectAssign(named, ns.variables),
                    ns.animations),
                ns.rawElements),
            BuiltElements(ns))

\* build() of the NamespaceBuilder ns named name: the namespace name, then
\* the variables, the animations, the built elements and the raw elements,
\* assigned in this order.
Document(ns, name) ==
    LET named == <<[key |-> "namespace", value |-> JsString(name)]>>
    IN  ObjectAssign(
            ObjectAssign(
                ObjectAssign(
                    ObjectAssign(named, ns.variables),
                    ns.animations),
                BuiltElements(ns)),
            ns.rawElements)

\* ns.build() of the namespace registered under name.
buildNamespace(name) == Document(namespaces[name], name)

\* ------------------------------------------------------------------------
\* Bounds of the builder model
\* ------------------------------------------------------------------------

\* Number of element builders constructed.
MaxBuilders == 2

\* Number of entries the registries hold together.
MaxRegistrations == 2

\* Number of extension declarations (calls of extends) on one builder.
MaxDeclarations == 1

\* Number of items one array of an element holds.
MaxItems == 2

\* Number of objects build() returns of one element.
MaxBuilds == 1

\* ------------------------------------------------------------------------
\* Builders: the operations
\* ------------------------------------------------------------------------

Ids == 1..Len(builders)

NotDeclared ==
    [ how       |-> "none",
      element   |-> NamespaceElement(0, NoValue),
      handedOut |-> FALSE,
      fullName  |-> NoValue,
      calls     |-> 0 ]

\* The note of a declaration: by which method, from which element, whether
\* addToNamespace had handed that element out, the full name the element's
\* builder had then, and the calls so far.
Declared(how, element, calls) ==
    [ how       |-> how,
      element   |-> element,
      handedOut |-> element \in handedOut,
      fullName  |-> getFullName(builders[element.builder]),
      calls     |-> calls ]

InitBuilders ==
    /\ builders = << >>
    /\ namespaces = [n \in NsNames |-> NamespaceBuilder]
    /\ declared = << >>
    /\ handedOut = {}
    /\ elementProperties = << >>
    /\ arrays = << >>
    /\ snapshots = << >>

\* The NamespaceElement values a caller can hold: those handed out, and
\* those made with the public constructor.
Elements == {NamespaceElement(id, n) : id \in Ids, n \in NsNames}

\* panel(name), element(name)
NewElement(name, type) ==
    /\ Len(builders) < MaxBuilders
    /\ builders' = Append(builders, ElementBuilder(name, type))
    /\ declared' = Append(declared, NotDeclared)
    /\ UNCHANGED << compilerVars, elementVars, namespaces, handedOut >>

\* builders[id].extendsFrom(element)
ExtendsFrom(id, element) ==
    /\ declared[id].calls < MaxDeclarations
    /\ builders' = [builders EXCEPT ![id] = extendsFrom(@, element)]
    /\ declared' = [declared EXCEPT ![id] = Declared("extendsFrom", element, @.calls + 1)]
    /\ UNCHANGED << compilerVars, elementVars, namespaces, handedOut >>

\* builders[id].extendsExternallyFrom(element)
ExtendsExternallyFrom(id, element) ==
    /\ declared[id].calls < MaxDeclarations
    /\ builders' = [builders EXCEPT ![id] = extendsExternallyFrom(@, element)]
    /\ declared' = [declared EXCEPT ![id] =
           Declared("extendsExternallyFrom", element, @.calls + 1)]
    /\ UNCHANGED << compilerVars, elementVars, namespaces, handedOut >>

\* extend(name, element)
Extend(name, element) ==
    /\ Len(builders) < MaxBuilders
    /\ builders' = Append(builders, extendsFrom(createForExtension(name), element))
    /\ declared' = Append(declared, Declared("extendsFrom", element, 1))
    /\ UNCHANGED << compilerVars, elementVars, namespaces, handedOut >>

\* extendExternal(name, element)
ExtendExternal(name, element) ==
    /\ Len(builders) < MaxBuilders
    /\ builders' = Append(builders, extendsExternallyFrom(createForExtension(name), element))
    /\ declared' = Append(declared, Declared("extendsExternallyFrom", element, 1))
    /\ UNCHANGED << compilerVars, elementVars, namespaces, handedOut >>

\* The references extends() is given as plain strings.
References == {"", "common.button"}

\* builders[id].extends(reference, shouldClearType); shouldClearType is
\* true when the caller leaves it out.
Extends(id, reference, shouldClearType) ==
    /\ declared[id].calls < MaxDeclarations
    /\ builders' = [builders EXCEPT ![id] = extends(@, reference, shouldClearType)]
    /\ declared' = [declared EXCEPT ![id] =
           [ how       |-> IF shouldClearType THEN "extends" ELSE "extendsKeepingType",
             element   |-> NamespaceElement(0, NoValue),
             handedOut |-> FALSE,
             fullName  |-> NoValue,
             calls     |-> @.calls + 1 ]]
    /\ UNCHANGED << compilerVars, elementVars, namespaces, handedOut >>

\* The entries the registries hold together.
RECURSIVE SumLen(_)

SumLen(S) ==
    IF S = {} THEN 0
    ELSE LET n == CHOOSE x \in S : TRUE
         IN  Len(namespaces[n].builders) + SumLen(S \ {n})

Registered == SumLen(NsNames)

\* builders[id].addToNamespace(ns)
AddToNamespace(id, n) ==
    /\ Registered < MaxRegistrations
    /\ namespaces' = [namespaces EXCEPT ![n] = addInternal(@, id)]
    /\ handedOut' = handedOut \cup {NamespaceElement(id, n)}
    /\ UNCHANGED << compilerVars, elementVars, builders, declared >>

\* ns.add(builder): the NamespaceBuilder afterwards.
add(ns, id, n) ==
    [addInternal(ns, id) EXCEPT
        !.elements = MapSet(@, getName(builders[id]), NamespaceElement(id, n))]

\* defineMain(namespaceName, mainElement): the namespace object of the
\* definition returned.
defineMain(namespaceName, id) ==
    Document(add(NamespaceBuilder, id, namespaceName), namespaceName)

\* ns.add(builders[id])
Add(id, n) ==
    /\ Registered < MaxRegistrations
    /\ namespaces' = [namespaces EXCEPT ![n] = add(@, id, n)]
    /\ handedOut' = handedOut \cup {NamespaceElement(id, n)}
    /\ UNCHANGED << compilerVars, elementVars, builders, declared >>

\* ns.setMain(builders[id]): this.add(builder)
SetMain(id, n) == Add(id, n)

\* ns.addRaw(name, element)
AddRaw(n, name, element) ==
    /\ namespaces' = [namespaces EXCEPT ![n].rawElements = MapSet(@, name, element)]
    /\ UNCHANGED << compilerVars, elementVars, builders, declared, handedOut >>

\* ns.modify(elementPath, modifications)
Modify(n, elementPath, modifications) ==
    /\ namespaces' = [namespaces EXCEPT ![n].rawElements =
                         MapSet(@, elementPath, modifications)]
    /\ UNCHANGED << compilerVars, elementVars, builders, declared, handedOut >>

\* The text of a name given as its characters: "$" and the rest.
RECURSIVE Text(_)
Text(chars) == IF chars = << >> THEN "" ELSE Head(chars) \o Text(Tail(chars))

\* addVariable: the key "$" + name without a leading "$" + "|default".
VariableKey(name) ==
    LET varName == IF name # << >> /\ Head(name) = "$" THEN Tail(name) ELSE name
    IN  "$" \o Text(varName) \o "|default"

\* ns.addVariable(name, defaultValue)
AddVariable(n, name, defaultValue) ==
    /\ namespaces' = [namespaces EXCEPT ![n].variables =
                         MapSet(@, VariableKey(name), defaultValue)]
    /\ UNCHANGED << compilerVars, elementVars, builders, declared, handedOut >>

\* ns.addAnimation(anim): anim.getName(), anim.build()
AddAnimation(n, anim) ==
    /\ namespaces' = [namespaces EXCEPT ![n].animations = MapSet(@, anim.name, anim.built)]
    /\ UNCHANGED << compilerVars, elementVars, builders, declared, handedOut >>

\* What the calls on a registry are given: the names of elements, the
\* keys of raw entries, the raw objects, the names and values of
\* variables, the animations.
RegistryNames == {"main", "0"}

RawKeys == {"main", "0", "namespace"}

RawObjects == {JsObject(<<[key |-> "type", value |-> "raw"]>>)}

VariableNames == {<<"v">>, <<"$", "v">>}

VariableValues == {JsString("1")}

Animations ==
    { [name |-> k, built |-> JsObject(<<[key |-> "anim_type", value |-> "alpha"]>>)] :
          k \in {"main", "fade"} }

\* The calls on one registry.
NextRegistry ==
    \/ \E name \in RegistryNames : NewElement(name, "panel")
    \/ \E id \in Ids : AddToNamespace(id, "ns")
    \/ \E id \in Ids : Add(id, "ns")
    \/ \E id \in Ids : SetMain(id, "ns")
    \/ \E name \in RawKeys, element \in RawObjects : AddRaw("ns", name, element)
    \/ \E name \in RawKeys, element \in RawObjects : Modify("ns", name, element)
    \/ \E name \in VariableNames, value \in VariableValues : AddVariable("ns", name, value)
    \/ \E anim \in Animations : AddAnimation("ns", anim)

NextBuilders ==
    \/ \E name \in Names, type \in ElementTypes : NewElement(name, type)
    \/ \E id \in Ids, reference \in References, shouldClearType \in BOOLEAN :
           Extends(id, reference, shouldClearType)
    \/ \E id \in Ids, element \in Elements : ExtendsFrom(id, element)
    \/ \E id \in Ids, element \in Elements : ExtendsExternallyFrom(id, element)
    \/ \E name \in Names, element \in Elements : Extend(name, element)
    \/ \E name \in Names, element \in Elements : ExtendExternal(name, element)
    \/ \E id \in Ids, n \in NsNames : AddToNamespace(id, n)

\* ------------------------------------------------------------------------
\* One element builder: its property object and the objects build() returns
\* ------------------------------------------------------------------------

\* The values of this.properties: a primitive, a reference to an array
\* object, an object (made anew by the call that assigns it).
Scalar(text) == [kind |-> "scalar", text |-> text, ref |-> 0, entries |-> << >>]

ArrayRef(ref) == [kind |-> "array", text |-> "", ref |-> ref, entries |-> << >>]

ObjectValue(entries) == [kind |-> "object", text |-> "", ref |-> 0, entries |-> entries]

PropGet(obj, key) == obj[CHOOSE i \in 1..Len(obj) : obj[i].key = key].value

\* { ...a, ...b }: the keys of a where they stand with the values b gives
\* them, then the keys only b has.
RECURSIVE Spread(_, _)
Spread(a, b) ==
    IF b = << >> THEN a ELSE Spread(PropSet(a, Head(b).key, Head(b).value), Tail(b))

registryVars == << builders, namespaces, declared, handedOut >>

\* setProp(key, value), prop(key, value), rawProp(key, value)
SetProp(key, value) ==
    /\ elementProperties' = PropSet(elementProperties, key, Scalar(value))
    /\ UNCHANGED << compilerVars, registryVars, arrays, snapshots >>

\* variable(): the key "$" + name without a leading "$", "|default"
\* appended for a default.
ElementVariableKey(name, isDefault) ==
    LET varName == IF name # << >> /\ Head(name) = "$" THEN Tail(name) ELSE name
    IN  IF isDefault THEN "$" \o Text(varName) \o "|default" ELSE "$" \o Text(varName)

\* variable(name, value, isDefault)
Variable(name, value, isDefault) ==
    /\ elementProperties' =
           PropSet(elementProperties, ElementVariableKey(name, isDefault), Scalar(value))
    /\ UNCHANGED << compilerVars, registryVars, arrays, snapshots >>

\* propertyBag(bag)
PropertyBag(bag) ==
    /\ elementProperties' =
           PropSet(elementProperties, "property_bag",
                   ObjectValue(Spread(IF PropHas(elementProperties, "property_bag")
                                      THEN PropGet(elementProperties, "property_bag").entries
                                      ELSE << >>,
                                      bag)))
    /\ UNCHANGED << compilerVars, registryVars, arrays, snapshots >>

\* "if (!this.properties[key]) this.properties[key] = [];
\*  this.properties[key].push(...items)"
Push(key, items) ==
    IF PropHas(elementProperties, key)
    THEN /\ Len(arrays[PropGet(elementProperties, key).ref]) + Len(items) <= MaxItems
         /\ arrays' = [arrays EXCEPT ![PropGet(elementProperties, key).ref] = @ \o items]
         /\ UNCHANGED elementProperties
    ELSE /\ arrays' = Append(arrays, items)
         /\ elementProperties' = PropSet(elementProperties, key, ArrayRef(Len(arrays) + 1))

\* controls(...children), addChild(builder, overrides): the children are
\* control references. bindings(), buttonMappings(), modifications() and
\* anims() do the same under their keys.
Controls(children) ==
    /\ Push("controls", children)
    /\ UNCHANGED << compilerVars, registryVars, snapshots >>

\* build(): "{ ...this.properties }", a new object with the same values,
\* the references to arrays among them.
Build ==
    /\ Len(snapshots) < MaxBuilds
    /\ snapshots' = Append(snapshots, elementProperties)
    /\ UNCHANGED << compilerVars, registryVars, elementProperties, arrays >>

\* What the calls on the element are given.
PropValues == {"1", "2"}

ElementVariableNames == {<<"$", "v">>}

PropertyBags == { <<[key |-> "#a", value |-> "1"]>>, <<[key |-> "#b", value |-> "2"]>> }

\* The calls on one element builder.
NextElement ==
    \/ \E value \in PropValues : SetProp("layer", value)
    \/ \E name \in ElementVariableNames, value \in PropValues, isDefault \in BOOLEAN :
           Variable(name, value, isDefault)
    \/ \E bag \in PropertyBags : PropertyBag(bag)
    \/ \E children \in {<<"bg@common.panel">>} : Controls(children)
    \/ Build

\* ------------------------------------------------------------------------
\* Specifications
\* ------------------------------------------------------------------------

vars == << compilerVars, builderVars >>

\* The compiler, with no builder at work.
Init == InitCompiler /\ InitBuilders

Next == NextCompiler

Spec == Init /\ [][Next]_vars

\* The runs that plan output paths for every kind of override.
\* The compiler after construction with no index file yet, and modules
\* that export definitions with every kind of filename and subdir override.
InitPlanning ==
    /\ InitCompilerWith(PlanDefChoices, {"absent"})
    /\ InitBuilders

SpecPlan == InitPlanning /\ [][Next]_vars

\* The runs over sources that export definitions placed inside and
\* outside the output directory, over every pre-existing index.
\* The compiler after construction with any index file, and modules that
\* export definitions placed inside and outside the output directory.
InitIndexing ==
    /\ InitCompilerWith(IndexDefChoices, {"absent", "unparsable", "json"})
    /\ InitBuilders

SpecIndex == InitIndexing /\ [][Next]_vars

\* The builders, with a compiler that stays idle.
InitLibrary ==
    /\ platform = "posix"
    /\ config = DEFAULT_CONFIG
    /\ modules = [f \in SeqToSet(SourceTree) |-> Module("noDefault", << >>)]
    /\ dirents = SourceDirents
    /\ staleFiles = << >>
    /\ registered = << >>
    /\ indexFile = IndexFile("absent", << >>)
    /\ outFiles = << >>
    /\ outDirs = {}
    /\ compiledFiles = << >>
    /\ errors = << >>
    /\ existingUiDefs = << >>
    /\ globalVariables = << >>
    /\ pc = [c \in Calls |-> "idle"]
    /\ sourceFiles = [c \in Calls |-> << >>]
    /\ fileIdx = [c \in Calls |-> 0]
    /\ parsed = [c \in Calls |-> << >>]
    /\ result = [c \in Calls |-> NoResult]
    /\ InitBuilders

SpecBuilders == InitLibrary /\ [][NextBuilders]_vars

\* One registry, filled in any order, with a compiler that stays idle.
SpecRegistry == InitLibrary /\ [][NextRegistry]_vars

\* One element builder, its mutators and build() called in any order, with
\* a compiler that stays idle.
SpecElement == InitLibrary /\ [][NextElement]_vars

\* Discovery: runs of the compiler over the deeper source tree.
\* The compiler after construction over the deeper tree, as some
\* filesystem enumerates it, with every kind of source root; every file
\* exports one definition without overrides.
InitDiscovering ==
    /\ platform \in Platforms
    /\ config \in RootConfigs
    /\ modules = [f \in SeqToSet(DeepTree) |->
                     Module("defs", <<defineUI("plain", Undefined, Undefined)>>)]
    /\ dirents \in DeepDirents
    /\ staleFiles = << >>
    /\ registered = << >>
    /\ indexFile = IndexFile("absent", << >>)
    /\ outFiles = << >>
    /\ outDirs = {}
    /\ compiledFiles = << >>
    /\ errors = << >>
    /\ existingUiDefs = << >>
    /\ globalVariables = << >>
    /\ pc = [c \in Calls |-> "idle"]
    /\ sourceFiles = [c \in Calls |-> << >>]
    /\ fileIdx = [c \in Calls |-> 0]
    /\ parsed = [c \in Calls |-> << >>]
    /\ result = [c \in Calls |-> NoResult]
    /\ InitBuilders

SpecDiscovery == InitDiscovering /\ [][Next]_vars

\* Cleaning: runs of the compiler in a workspace with files of an earlier use.
\* The compiler after construction in a workspace that holds files of an
\* earlier use, with and without config.clean; every source file exports
\* one definition without overrides.
InitCleaning ==
    /\ platform \in Platforms
    /\ config \in {cfg \in Configs : cfg.sourceDir = <<"ui">>}
                     \cup {[DEFAULT_CONFIG EXCEPT !.clean = TRUE]}
    /\ modules = [f \in SeqToSet(SourceTree) |->
                     Module("defs", <<defineUI("plain", Undefined, Undefined)>>)]
    /\ dirents = SourceDirents
    /\ staleFiles \in {[p \in paths |-> StaleText] : paths \in SUBSET StalePaths(platform, config)}
    /\ registered = << >>
    /\ indexFile = IndexFile("absent", << >>)
    /\ outFiles = staleFiles
    /\ outDirs = UNION {MkdirRecursive(PathDirname(p)) : p \in DOMAIN staleFiles}
    /\ compiledFiles = << >>
    /\ errors = << >>
    /\ existingUiDefs = << >>
    /\ globalVariables = << >>
    /\ pc = [c \in Calls |-> "idle"]
    /\ sourceFiles = [c \in Calls |-> << >>]
    /\ fileIdx = [c \in Calls |-> 0]
    /\ parsed = [c \in Calls |-> << >>]
    /\ result = [c \in Calls |-> NoResult]
    /\ InitBuilders

SpecClean == InitCleaning /\ [][Next]_vars

\* Exports: runs over sources with every kind of default export.
InitExporting ==
    /\ InitCompilerWith(ExportChoices, {"absent"})
    /\ InitBuilders

SpecExports == InitExporting /\ [][Next]_vars

\* Overlap: invocations of compile() on one instance that may begin while
\* an earlier one is suspended. An invocation runs from one await to the
\* next without interruption: it takes a step only while every other
\* invocation has not begun, is suspended in the import, or has settled.
Unsuspended(c) == \A d \in Calls \ {c} : pc[d] \in {"idle", "import", "done", "rejected"}

NextOverlapping ==
    \E c \in Calls :
        \/ Unsuspended(c) /\ Compile(c)
        \/ Unsuspended(c) /\ CompileOverlapping(c)
        \/ Unsuspended(c) /\ LoadExistingUiDefs(c)
        \/ Unsuspended(c) /\ EnsureOutputDir(c)
        \/ Unsuspended(c) /\ CleanOutputDir(c)
        \/ Unsuspended(c) /\ FindSourceFiles(c)
        \/ Unsuspended(c) /\ CompileFile(c)
        \/ Unsuspended(c) /\ CompileFileSettled(c)
        \/ Unsuspended(c) /\ WriteOutputFiles(c)
        \/ Unsuspended(c) /\ GenerateUiDefs(c)

SpecOverlap == InitExporting /\ [][NextOverlapping]_vars

\* Global variables: runs of the compiler over the source tree, and a
\* caller that registers global variables before, between and during the
\* runs, and writes them.
NextGlobals ==
    \/ NextCompiler
    \/ \E name \in {<<"padding">>, <<"$", "padding">>, <<"$", "color">>}, value \in {"10", "20"} :
           AddGlobalVariable(name, value)
    \/ WriteGlobalVariables

\* The compiler after construction with and without a path for the global
\* variables; every source file exports one definition without overrides.
InitRegistering ==
    /\ platform \in Platforms
    /\ config \in { DEFAULT_CONFIG,
                     [DEFAULT_CONFIG EXCEPT !.globalVariablesPath = Undefined],
                     [DEFAULT_CONFIG EXCEPT !.clean = TRUE] }
    /\ modules = [f \in SeqToSet(SourceTree) |->
                     Module("defs", <<defineUI("plain", Undefined, Undefined)>>)]
    /\ dirents = SourceDirents
    /\ staleFiles = << >>
    /\ registered = << >>
    /\ indexFile = IndexFile("absent", << >>)
    /\ outFiles = << >>
    /\ outDirs = {}
    /\ compiledFiles = << >>
    /\ errors = << >>
    /\ existingUiDefs = << >>
    /\ globalVariables = << >>
    /\ pc = [c \in Calls |-> "idle"]
    /\ sourceFiles = [c \in Calls |-> << >>]
    /\ fileIdx = [c \in Calls |-> 0]
    /\ parsed = [c \in Calls |-> << >>]
    /\ result = [c \in Calls |-> NoResult]
    /\ InitBuilders

SpecGlobals == InitRegistering /\ [][NextGlobals]_vars

\* ------------------------------------------------------------------------
\* Vocabulary of the properties of the compiler
\* ------------------------------------------------------------------------

Done(c) == pc[c] = "done"

NoDuplicates(seq) == \A i, j \in 1..Len(seq) : seq[i] = seq[j] => i = j

\* The path segments of an index entry or of a configured directory,
\* whichever separator it is written with.
EntrySegs(text) == NormSegs(Split("win32", text), FALSE)

\* The entry lies inside the configured output directory.
InsideOutputDir(entry) ==
    LET dir == EntrySegs(config.outputDir)
        e == EntrySegs(entry)
    IN  Len(e) > Len(dir) /\ SubSeq(e, 1, Len(dir)) = dir

\* The text of an output path with forward slashes.
ForwardSlashes(text) ==
    [i \in 1..Len(text) |-> IF text[i] \in {"/", "\\"} THEN "/" ELSE text[i]]

\* The index entries of a list of artifacts, in order.
EntriesOf(files) == [i \in 1..Len(files) |-> ForwardSlashes(files[i].outputPath)]

\* A list without the repetitions of its elements and without the
\* elements of a set, in order of first occurrence.
RECURSIVE FirstOccurrences(_, _)
FirstOccurrences(seq, seen) ==
    IF seq = << >> THEN << >>
    ELSE IF Head(seq) \in seen
         THEN FirstOccurrences(Tail(seq), seen)
         ELSE <<Head(seq)>> \o FirstOccurrences(Tail(seq), seen \cup {Head(seq)})

\* The path of a source file as compileFile reports it (relative to cwd).
ReportedPath(f) == Render(platform, SubSeq(f, Len(Cwd) + 1, Len(f)))

\* Loading and processing the file throws.
FileFails(f) ==
    \/ modules[f].kind = "throws"
    \/ \E i \in 1..Len(modules[f].defs) : modules[f].defs[i].namespace.circular

ArtifactsOfFile(files, f) == SelectSeq(files, LAMBDA a : a.sourcePath = ReportedPath(f))

ErrorsOfFile(errs, f) == SelectSeq(errs, LAMBDA e : e.file = ReportedPath(f))

\* ------------------------------------------------------------------------
\* C1
\* ------------------------------------------------------------------------

\* C1: in a run over N discovered source files of which exactly one
\* throws (during module load or while its definitions are processed), the
\* failing file contributes exactly one entry to the error list and no
\* artifact, and every other file contributes all of its artifacts.
C1_OneFailingFileIsIsolated ==
    \A c \in Calls :
        Done(c) =>
            LET found == SeqToSet(sourceFiles[c])
                failing == {f \in found : FileFails(f)}
            IN  Cardinality(failing) = 1 =>
                    /\ Len(result[c].errors) = 1
                    /\ \A f \in failing :
                          /\ Len(ErrorsOfFile(result[c].errors, f)) = 1
                          /\ ArtifactsOfFile(result[c].files, f) = << >>
                    /\ \A f \in found \ failing :
                          Len(ArtifactsOfFile(result[c].files, f)) = Len(modules[f].defs)

\* ------------------------------------------------------------------------
\* C2
\* ------------------------------------------------------------------------

\* C2: every entry of the pre-existing index that does not lie inside the
\* configured output directory (a foreign entry) is in the final index
\* verbatim, in its original relative order and before every newly
\* generated entry; the newly generated entries follow in compilation
\* order.
C2_ForeignEntriesPreserved ==
    \A c \in Calls :
        Done(c) =>
            LET foreign == SelectSeq(parsed[c], LAMBDA e : ~InsideOutputDir(e))
                generated == FirstOccurrences(EntriesOf(result[c].files), SeqToSet(foreign))
            IN  result[c].uiDefs = foreign \o generated

\* ------------------------------------------------------------------------
\* C3
\* ------------------------------------------------------------------------

\* C3: after a run, the final index holds an entry that lies inside the
\* configured output directory only if it is the forward-slash output path
\* of an artifact compiled in this run.
C3_OwnedEntriesRegenerated ==
    \A c \in Calls :
        Done(c) =>
            \A i \in 1..Len(result[c].uiDefs) :
                InsideOutputDir(result[c].uiDefs[i]) =>
                    result[c].uiDefs[i] \in SeqToSet(EntriesOf(result[c].files))

\* ------------------------------------------------------------------------
\* C4
\* ------------------------------------------------------------------------

\* The entries of the index a run read that loadExistingUiDefs keeps.
Preserved(c) == SelectSeq(parsed[c], LAMBDA e : ~Includes(e, GeneratedMarker))

\* C4 as claimed: the final index list of every run holds no duplicate
\* entries, whatever the pre-existing index file holds.
C4_NoDuplicateEntries ==
    \A c \in Calls : Done(c) => NoDuplicates(result[c].uiDefs)

\* C4, amended: the final index list of a run holds no duplicate entries
\* when the entries the run preserves from the pre-existing index (those
\* without "__generated__") hold none, whatever artifacts are compiled;
\* and when that is so for the first run it is so for every later run.
C4_NoDuplicatesAdded ==
    \A c \in Calls :
        Done(c) =>
            /\ NoDuplicates(Preserved(c)) => NoDuplicates(result[c].uiDefs)
            /\ NoDuplicates(Preserved(1)) => NoDuplicates(result[c].uiDefs)

\* A second run has ended whose preserved entries held no duplicates, with
\* two artifacts of one output path and a preserved entry.
C4_Witness ==
    /\ Done(2)
    /\ NoDuplicates(Preserved(2))
    /\ Preserved(2) # << >>
    /\ ~NoDuplicates(EntriesOf(result[2].files))

\* ------------------------------------------------------------------------
\* C5
\* ------------------------------------------------------------------------

\* C5: compiling the same unchanged sources twice in succession with the
\* same configuration yields, after the second run, the artifact texts
\* and the index list of the first run.
C5_RerunIsIdempotent ==
    (Done(1) /\ Done(2)) =>
        /\ [i \in 1..Len(result[2].files) |-> result[2].files[i].json]
               = [i \in 1..Len(result[1].files) |-> result[1].files[i].json]
        /\ result[2].uiDefs = result[1].uiDefs

\* ------------------------------------------------------------------------
\* C9
\* ------------------------------------------------------------------------

\* C9: a definition flagged isVanillaOverride is written to an output
\* path outside the configured output directory, and its output path is
\* not added to the index the run writes.
C9_VanillaOverrideRoutedOutside ==
    \A c \in Calls :
        Done(c) =>
            \A i \in 1..Len(result[c].files) :
                LET a == result[c].files[i] IN
                a.def.isVanillaOverride =>
                    /\ ~InsideOutputDir(a.outputPath)
                    /\ ~ArrayIncludes(result[c].uiDefs, ForwardSlashes(a.outputPath))

\* ------------------------------------------------------------------------
\* C10
\* ------------------------------------------------------------------------

\* The output path planned for a definition of the source file f: the
\* output directory, then the subdir override or, without one, the
\* directories that lead from the source root to the file (".." when the
\* source root names the file itself), then the filename override or,
\* without one, the name of the file without its extension, then ".json".
PlannedPath(f, def) ==
    LET root == Cwd \o EntrySegs(config.sourceDir)
        name == f[Len(f)]
        stem == SubSeq(name, 1, Len(name) - 1)
        below == Len(f) > Len(root) /\ SubSeq(f, 1, Len(root)) = root
        relativeDir ==
            IF below THEN SubSeq(f, Len(root) + 1, Len(f) - 1) ELSE << <<"..">> >>
        subdir ==
            IF def.subdir # Undefined THEN Split(platform, def.subdir) ELSE relativeDir
        filename ==
            IF def.filename \notin {Undefined, << >>} THEN def.filename ELSE stem
    IN  Render(platform,
               NormSegs(Split(platform, config.outputDir) \o subdir
                            \o << filename \o <<".json">> >>, FALSE))

Serialized(n, key, id) ==
    /\ \E i \in 1..Len(buildNamespace(n)) :
           /\ buildNamespace(n)[i].key = key
           /\ buildNamespace(n)[i].value = JsObject(buildElement(builders[id]))
    /\ \E i \in 1..Len(namespaces[n].builders) :
           /\ namespaces[n].builders[i].key = key
           /\ namespaces[n].builders[i].value = id

\* The builder the extension of builder id was declared from.
BaseOf(id) == declared[id].element.builder

\* Builder id declared its extension, by the method, from a token that a
\* namespace had handed out for another builder.
DeclaredFrom(id, how) ==
    /\ declared[id].how = how
    /\ declared[id].handedOut
    /\ BaseOf(id) # id

\* ------------------------------------------------------------------------
\* C6  Same-namespace extension
\* ------------------------------------------------------------------------

\* The full name of the base is what it was when the extension was
\* declared.
BaseUnchanged(id) == getFullName(builders[BaseOf(id)]) = declared[id].fullName

\* C6 (as stated): when B, having declared its extension with
\* extendsFrom(token of A) for an A registered in a namespace, is registered
\* in that namespace, the serialized namespace holds B under the key
\* B.name + "@" + A.fullName(), also when A itself extends.
C6_KeyIsFullNameOfBase ==
    [][\A id \in Ids, n \in NsNames :
          ( /\ AddToNamespace(id, n)
            /\ DeclaredFrom(id, "extendsFrom")
            /\ declared[id].element.namespaceName = n
            /\ BaseUnchanged(id) )
          => Serialized(n, getName(builders[id]) \o "@"
                             \o getFullName(builders[BaseOf(id)]), id)']_vars

\* The key extendsFrom gives: the bare name of the base after "@", and the
\* bare name of the extending element alone when the base's name is empty.
BareKey(id) ==
    IF getName(builders[BaseOf(id)]) = ""
    THEN getName(builders[id])
    ELSE getName(builders[id]) \o "@" \o getName(builders[BaseOf(id)])

\* C6 (amended): when B, having declared its extension with
\* extendsFrom(token of A) for an A registered in a namespace, is registered
\* in that namespace, the serialized namespace holds B under the key
\* B.name + "@" + A.name, A's bare name whether or not A itself extends, and
\* under B.name alone when A's name is empty.
C6_KeyIsBareNameOfBase ==
    [][\A id \in Ids, n \in NsNames :
          ( /\ AddToNamespace(id, n)
            /\ DeclaredFrom(id, "extendsFrom")
            /\ declared[id].element.namespaceName = n )
          => Serialized(n, BareKey(id), id)']_vars

\* B extends an A that itself extends, and the namespace that handed out
\* A's token holds B under B.name@A.name.
C6_Witness ==
    \E id \in Ids, n \in NsNames :
        /\ DeclaredFrom(id, "extendsFrom")
        /\ declared[id].element.namespaceName = n
        /\ BaseUnchanged(id)
        /\ getFullName(builders[BaseOf(id)]) # getName(builders[BaseOf(id)])
        /\ getName(builders[BaseOf(id)]) # ""
        /\ Serialized(n, BareKey(id), id)

\* ------------------------------------------------------------------------
\* C7  Cross-namespace extension
\* ------------------------------------------------------------------------

\* B.name + "@" + nsA + "." + A.name
QualifiedKey(id) ==
    getName(builders[id]) \o "@" \o declared[id].element.namespaceName
        \o "." \o getName(builders[BaseOf(id)])

\* C7: when B, having declared its extension with
\* extendsExternallyFrom(token of A) or made by extendExternal, for an A
\* registered in namespace nsA, is registered in a namespace, its full name
\* is B.name + "@" + nsA + "." + A.name and the serialized namespace holds
\* it under that key.
C7_KeyIsQualifiedNameOfBase ==
    [][\A id \in Ids, n \in NsNames :
          ( /\ AddToNamespace(id, n)
            /\ DeclaredFrom(id, "extendsExternallyFrom") )
          => /\ getFullName(builders[id]) = QualifiedKey(id)
             /\ Serialized(n, QualifiedKey(id), id)']_vars

\* B extends an A of the other namespace, an A that itself extends, and
\* B's namespace holds B under the qualified key.
C7_Witness ==
    \E id \in Ids, n \in NsNames :
        /\ DeclaredFrom(id, "extendsExternallyFrom")
        /\ declared[id].element.namespaceName # n
        /\ getFullName(builders[BaseOf(id)]) # getName(builders[BaseOf(id)])
        /\ Serialized(n, QualifiedKey(id), id)

\* ------------------------------------------------------------------------
\* C8  Reference validity
\* ------------------------------------------------------------------------

\* The namespace holds an element of the bare name.
HasElement(n, name) ==
    \E i \in 1..Len(namespaces[n].builders) :
        getName(builders[namespaces[n].builders[i].value]) = name

\* C8: no namespace holds a key name@base, declared through extendsFrom,
\* whose base is not an element of that namespace: extendsFrom with a
\* token the namespace never handed out fails before serialization.
C8_ExtensionBaseIsRegistered ==
    \A n \in NsNames :
        \A i \in 1..Len(namespaces[n].builders) :
            LET id == namespaces[n].builders[i].value
            IN  ( /\ declared[id].how = "extendsFrom"
                  /\ builders[id].extendsRef # ""
                  /\ namespaces[n].builders[i].key = getFullName(builders[id]) )
                => /\ declared[id].handedOut
                   /\ HasElement(n, builders[id].extendsRef)

\* ------------------------------------------------------------------------
\* Vocabulary of the properties of a serialized namespace
\* ------------------------------------------------------------------------

\* The keys of a map or of an object, in its order.
Keys(map) == [i \in 1..Len(map) |-> map[i].key]

\* The value an object holds under a key.
ValueAt(obj, key) == obj[CHOOSE i \in 1..Len(obj) : obj[i].key = key].value

\* The keys of the four maps of a registry after "namespace", map by map.
KeysMapByMap(n) ==
    <<"namespace">> \o Keys(namespaces[n].variables) \o Keys(namespaces[n].animations)
        \o Keys(namespaces[n].builders) \o Keys(namespaces[n].rawElements)

\* ------------------------------------------------------------------------
\* C11  Raw entries shadow built elements
\* ------------------------------------------------------------------------

\* C11: whenever a raw entry and a built element of a registry share a
\* key, the serialized namespace holds the raw entry's object under that
\* key, in whichever order the two were registered.
C11_RawShadowsBuilt ==
    \A n \in NsNames :
        \A i \in 1..Len(namespaces[n].rawElements) :
            MapHas(namespaces[n].builders, namespaces[n].rawElements[i].key)
                => ValueAt(buildNamespace(n), namespaces[n].rawElements[i].key)
                       = namespaces[n].rawElements[i].value

\* A raw entry and a built element share the key "main", the built
\* element would serialize to another object, and the raw object is what
\* the serialized namespace holds.
C11_Witness ==
    /\ MapHas(namespaces["ns"].rawElements, "main")
    /\ MapHas(namespaces["ns"].builders, "main")
    /\ ValueAt(BuiltElements(namespaces["ns"]), "main")
           # ValueAt(namespaces["ns"].rawElements, "main")
    /\ ValueAt(buildNamespace("ns"), "main") = ValueAt(namespaces["ns"].rawElements, "main")

\* ------------------------------------------------------------------------
\* C12  Field order of the serialized namespace
\* ------------------------------------------------------------------------

\* C12 (as stated): the keys of the serialized namespace are "namespace",
\* then every variable key, every animation name, every element full name
\* and every raw key, each map in its insertion order, also when a key is
\* used in more than one map.
C12_KeysMapByMap ==
    \A n \in NsNames : Keys(buildNamespace(n)) = KeysMapByMap(n)

\* The keys that stand for array indices, in ascending order.
IndexKeys(keys) == SelectSeq(<<"0", "1">>, LAMBDA k : k \in SeqToSet(keys))

\* C12 (amended): the keys of the serialized namespace are the keys that
\* stand for array indices, ascending, then all other keys in the order
\* of their first use in: "namespace", the variable keys, the animation
\* names, the element full names, the raw keys; a key used in more than
\* one map appears once.
C12_KeysInOrderOfFirstUse ==
    \A n \in NsNames :
        Keys(buildNamespace(n)) =
            IndexKeys(KeysMapByMap(n))
                \o FirstOccurrences(KeysMapByMap(n), SeqToSet(IndexKeys(KeysMapByMap(n))))

\* A registry whose maps share a key and that holds an index key, a
\* variable, an animation, an element and a raw entry.
C12_Witness ==
    LET ns == namespaces["ns"]
    IN  /\ ns.variables # << >>
        /\ ns.animations # << >>
        /\ MapHas(ns.builders, "main")
        /\ MapHas(ns.rawElements, "main")
        /\ \/ MapHas(ns.builders, "0")
           \/ MapHas(ns.rawElements, "0")
        /\ Keys(buildNamespace("ns")) # KeysMapByMap("ns")

\* ------------------------------------------------------------------------
\* C13  Full name of an element
\* ------------------------------------------------------------------------

C14_ElementNamesUnique ==
    \A n \in NsNames :
        \A i, j \in 1..Len(namespaces[n].builders) :
            i # j => getName(builders[namespaces[n].builders[i].value])
                         # getName(builders[namespaces[n].builders[j].value])

\* ------------------------------------------------------------------------
\* C15  Kind of an extending element
\* ------------------------------------------------------------------------

\* C15: an element whose extension was set by extends(reference) with
\* the default shouldClearType, by extendsFrom or by extendsExternallyFrom
\* builds to an object without a type key.
C15_ExtensionClearsType ==
    \A id \in Ids :
        declared[id].how \in {"extends", "extendsFrom", "extendsExternallyFrom"}
            => ~PropHas(buildElement(builders[id]), "type")

\* ------------------------------------------------------------------------
\* C16  Default kind
\* ------------------------------------------------------------------------

\* C16: an element made without a type and without an extension is
\* serialized with type = "panel".
C16_DefaultTypeIsPanel ==
    \A n \in NsNames :
        \A i \in 1..Len(namespaces[n].builders) :
            LET id == namespaces[n].builders[i].value
                built == ValueAt(buildNamespace(n), namespaces[n].builders[i].key).members
            IN  (declared[id].how = "none" /\ builders[id].type = NoValue)
                    => /\ PropHas(built, "type")
                       /\ ValueAt(built, "type") = "panel"


\* ------------------------------------------------------------------------
\* C17
\* ------------------------------------------------------------------------

\* findSourceFiles() of the invocation c has returned.
Discovered(c) ==
    pc[c] \in {"compileFile", "import", "writeOutputFiles", "generateUiDefs", "done"}

\* The files of the source tree that the source root names: the root
\* itself, the root with ".ts" appended, and the files below the root.
FilesOfRoot ==
    LET root == PathResolve(platform, config.sourceDir)
    IN  {f \in SeqToSet(DeepTree) :
            \/ f = root
            \/ f = Append(PathDirname(root), Append(root[Len(root)], ".ts"))
            \/ Len(f) > Len(root) /\ SubSeq(f, 1, Len(root)) = root}

\* C17: for every kind of source root (a directory, a file by its exact
\* path, a file without its extension) discovery returns no file whose
\* basename begins with the exclusion marker, at any depth, and returns
\* every other matching file the root names, also from directories that
\* hold excluded files or are named with the marker.
C17_ExcludedFilesNeverDiscovered ==
    \A c \in Calls :
        Discovered(c) =>
            SeqToSet(sourceFiles[c])
                = {f \in FilesOfRoot : f[Len(f)][1] # "_" /\ f[Len(f)][Len(f[Len(f)])] = ".ts"}

\* ------------------------------------------------------------------------
\* C18
\* ------------------------------------------------------------------------

\* C18: for a directory root the ordered list of discovered files depends
\* only on the set of file paths below the root: it is in path order,
\* whatever the order in which the filesystem enumerates the entries.
C18_DiscoveryInPathOrder ==
    \A c \in Calls :
        (Discovered(c) /\ PathResolve(platform, config.sourceDir) \in DOMAIN dirents) =>
            sourceFiles[c]
                = SelectSeq(DeepTree, LAMBDA f : f \in SeqToSet(sourceFiles[c]))

\* ------------------------------------------------------------------------
\* C19
\* ------------------------------------------------------------------------

\* The file p lies below the output directory, at any depth.
InOutputDir(p) ==
    LET outputDir == PathResolve(platform, config.outputDir)
    IN  Len(p) > Len(outputDir) /\ SubSeq(p, 1, Len(outputDir)) = outputDir

\* The file p is the output of an artifact the invocation c compiled.
OutputOfRun(c, p) ==
    \E i \in 1..Len(result[c].files) :
        PathResolve(platform, result[c].files[i].outputPath) = p

\* The file p lies directly in the output directory and is not a .json file.
PlainFileOfOutputRoot(p) ==
    /\ Len(p) = Len(PathResolve(platform, config.outputDir)) + 1
    /\ p[Len(p)][Len(p[Len(p)])] # ".json"

\* C19 as stated: after a run with clean = true, every file that was in
\* the output directory before the run, at any depth, and is not the
\* output of an artifact compiled in this run has been removed.
C19_EveryStaleFileRemoved ==
    \A c \in Calls :
        (Done(c) /\ config.clean) =>
            \A p \in DOMAIN staleFiles :
                (InOutputDir(p) /\ ~OutputOfRun(c, p)) => p \notin DOMAIN outFiles

\* C19, amended: after a run with clean = true, every file that was in
\* the output directory before the run and is not the output of an
\* artifact compiled in this run has been removed when it is a .json file
\* directly in the output directory or lies below one of its
\* subdirectories, at any depth; a file directly in the output directory
\* that is not a .json file is still there, with its text.
C19_StaleJsonAndSubdirectoriesRemoved ==
    \A c \in Calls :
        (Done(c) /\ config.clean) =>
            \A p \in DOMAIN staleFiles :
                (InOutputDir(p) /\ ~OutputOfRun(c, p)) =>
                    IF PlainFileOfOutputRoot(p)
                    THEN p \in DOMAIN outFiles /\ outFiles[p] = staleFiles[p]
                    ELSE p \notin DOMAIN outFiles

\* A cleaning run has returned in a workspace that held every stale file:
\* the stale .json files and the subdirectories are gone, the outputs of
\* the run and the file that is not .json are there.
C19_Witness ==
    /\ Done(1) /\ config.clean
    /\ DOMAIN staleFiles = StalePaths(platform, config)
    /\ LET outputDir == PathResolve(platform, config.outputDir)
       IN  /\ outputDir \o << <<"old", ".json">> >> \notin DOMAIN outFiles
           /\ outputDir \o << <<"sub">>, <<"old", ".json">> >> \notin DOMAIN outFiles
           /\ outputDir \o << <<"gone">>, <<"deep">>, <<"readme", ".txt">> >> \notin DOMAIN outFiles
           /\ outputDir \o << <<"notes", ".txt">> >> \in DOMAIN outFiles
           /\ outputDir \o << <<"sub">>, <<"menu", ".json">> >> \in DOMAIN outFiles
           /\ outFiles[outputDir \o << <<"hud", ".json">> >>] # StaleText

\* ------------------------------------------------------------------------
\* C20
\* ------------------------------------------------------------------------

\* C20: when the default export of a source file is a list of k
\* definitions, the run yields k artifacts of that file in list order, and
\* after the write phase every artifact exists as its own output file that
\* holds the artifact's text: no two artifacts of the run share a file
\* (stated where the write phase is over and the index not yet written).
C20_EachDefinitionHasItsOwnFile ==
    \A c \in Calls :
        pc[c] = "generateUiDefs" =>
            /\ \A i \in 1..Len(sourceFiles[c]) :
                   LET f == sourceFiles[c][i]
                       artifacts == ArtifactsOfFile(compiledFiles, f)
                   IN  (modules[f].kind = "defs" /\ ~FileFails(f)) =>
                           /\ Len(artifacts) = Len(modules[f].defs)
                           /\ \A k \in 1..Len(artifacts) :
                                  artifacts[k].def = modules[f].defs[k]
            /\ \A i \in 1..Len(compiledFiles) :
                   LET outputPath == PathResolve(platform, compiledFiles[i].outputPath)
                   IN  /\ outputPath \in DOMAIN outFiles
                       /\ outFiles[outputPath] = compiledFiles[i].json
            /\ \A i, j \in 1..Len(compiledFiles) :
                   PathResolve(platform, compiledFiles[i].outputPath)
                       = PathResolve(platform, compiledFiles[j].outputPath) => i = j


\* ------------------------------------------------------------------------
\* C21
\* ------------------------------------------------------------------------

\* The content of an object build() returned: its keys in order, the value
\* of each, and the items of the array a value refers to.
Content(snapshot, heap) ==
    [i \in 1..Len(snapshot) |->
        [ key   |-> snapshot[i].key,
          value |-> snapshot[i].value,
          items |-> IF snapshot[i].value.kind = "array"
                    THEN heap[snapshot[i].value.ref]
                    ELSE << >> ]]

\* C21: the object build() returned is an immutable snapshot: no later call
\* on the builder, of a scalar setter or of an appending one, changes its
\* content.
C21_BuiltObjectNeverChanges ==
    [][ \A i \in 1..Len(snapshots) : Content(snapshots'[i], arrays') = Content(snapshots[i], arrays) ]_vars

\* ------------------------------------------------------------------------
\* C22
\* ------------------------------------------------------------------------

\* C22: for a key that is not list-valued the last write wins with no
\* accumulation: when a setter is called on a key it has set before, the
\* built value under that key is exactly the value of this call.
C22_LastWriteWins ==
    [][ /\ \A value \in PropValues :
               (PropHas(elementProperties, "layer") /\ SetProp("layer", value)) =>
                   PropGet(elementProperties', "layer") = Scalar(value)
        /\ \A name \in ElementVariableNames, value \in PropValues, isDefault \in BOOLEAN :
               (/\ PropHas(elementProperties, ElementVariableKey(name, isDefault))
                /\ Variable(name, value, isDefault)) =>
                   PropGet(elementProperties', ElementVariableKey(name, isDefault))
                       = Scalar(value)
        /\ \A bag \in PropertyBags :
               (PropHas(elementProperties, "property_bag") /\ PropertyBag(bag)) =>
                   PropGet(elementProperties', "property_bag") = ObjectValue(bag)
      ]_vars

\* ------------------------------------------------------------------------
\* C23
\* ------------------------------------------------------------------------

\* The global-variables side file, where a path is configured.
SideFile == PathResolve(platform, config.globalVariablesPath)

\* C23: a run writes the global-variables side file if and only if a
\* global variable was registered on the compiler through
\* addGlobalVariable and a path is configured; the file and the result's
\* globalVariables then hold every registered variable under its
\* $-prefixed key; a run with no registered variable writes no side file
\* (stated of the step with which the run returns).
C23_RegisteredGlobalsWritten ==
    [][ \A c \in Calls :
          GenerateUiDefs(c) =>
             IF DOMAIN registered # {} /\ config.globalVariablesPath # Undefined
             THEN /\ SideFile \in DOMAIN outFiles'
                  /\ outFiles'[SideFile] = JsonStringify(registered, config.prettyPrint)
                  /\ result'[c].hasGlobals
                  /\ globalVariables' = registered
             ELSE config.globalVariablesPath # Undefined => SideFile \notin DOMAIN outFiles'
      ]_vars

\* ------------------------------------------------------------------------
\* C24
\* ------------------------------------------------------------------------

\* C24: defineMain(namespaceName, mainElement) forces the name of the
\* element to "main": whatever name the builder passed has, the namespace
\* object holds the element under the key main, or main@base when the
\* builder extends base.
C24_DefineMainKeysMain ==
    \A n \in NsNames, id \in Ids :
        LET ref == builders[id].extendsRef
            main == IF ref # NoValue /\ ref # "" THEN "main@" \o ref ELSE "main"
        IN  Keys(defineMain(n, id)) = <<"namespace", main>>

\* ------------------------------------------------------------------------
\* C25
\* ------------------------------------------------------------------------

\* The position of a key in a map or an object that holds it.
PositionOf(map, key) == CHOOSE i \in 1..Len(map) : map[i].key = key

\* C25: a registration keys the entry by the element's full name at that
\* moment; when the registry holds the key already, the entry takes the
\* new element in the place the key has, the other entries stay as they
\* are, and the keys of the serialized document keep their order; a new
\* key goes after the entries the registry holds. (Stated of _addInternal
\* on every registry reached and every builder constructed.)
C25_CollisionReplacesInPlace ==
    \A n \in NsNames, id \in Ids :
        LET key == getFullName(builders[id])
            old == namespaces[n]
            new == addInternal(old, id)
            at == PositionOf(new.builders, key)
        IN  /\ MapHas(new.builders, key)
            /\ new.builders[at].value = id
            /\ ValueAt(BuiltElements(new), key) = JsObject(buildElement(builders[id]))
            /\ \A i \in 1..Len(old.builders) :
                   old.builders[i].key # key => new.builders[i] = old.builders[i]
            /\ IF MapHas(old.builders, key)
               THEN /\ at = PositionOf(old.builders, key)
                    /\ Keys(Document(new, n)) = Keys(Document(old, n))
                    /\ \A k \in SeqToSet(Keys(Document(old, n))) \ {key} :
                           ValueAt(Document(new, n), k) = ValueAt(Document(old, n), k)
               ELSE at = Len(old.builders) + 1

\* Two builders of one full name have both been registered with ns, the
\* second one last, after a variable and next to other entries: the
\* registry holds the name once, with the second builder.
C25_Witness ==
    /\ Len(builders) = 2
    /\ getFullName(builders[1]) = getFullName(builders[2])
    /\ {NamespaceElement(1, "ns"), NamespaceElement(2, "ns")} \subseteq handedOut
    /\ Keys(namespaces["ns"].builders) = <<getFullName(builders[1])>>
    /\ namespaces["ns"].builders[1].value = 2
    /\ namespaces["ns"].variables # << >>
    /\ MapHas(namespaces["ns"].rawElements, "0")

\* ------------------------------------------------------------------------
\* C26
\* ------------------------------------------------------------------------

\* C26: whatever value the default export of a source file has, also an
\* object without a namespace property, processing it ends in an artifact
\* whose text is a JSON string or in a CompilationError of that file, so
\* that the write phase does not fail because of it: no artifact holds a
\* text that is not a string, and no run is rejected.
C26_BadExportNeverAbortsRun ==
    /\ \A i \in 1..Len(compiledFiles) : compiledFiles[i].json # NoText
    /\ \A c \in Calls : pc[c] # "rejected"

\* ------------------------------------------------------------------------
\* C27
\* ------------------------------------------------------------------------

\* C27: for every definition that sets no subdir override, the planned
\* output path and the index entry lie inside the configured output
\* directory, when the source root is a directory and when it designates
\* a single source file, with or without the implied .ts extension.
C27_OutputInsideOutputDir ==
    \A c \in Calls :
        Done(c) =>
            \A i \in 1..Len(result[c].files) :
                LET a == result[c].files[i] IN
                a.def.subdir = Undefined =>
                    /\ InsideOutputDir(a.outputPath)
                    /\ \E j \in 1..Len(result[c].uiDefs) :
                           /\ result[c].uiDefs[j] = ForwardSlashes(a.outputPath)
                           /\ InsideOutputDir(result[c].uiDefs[j])

\* ------------------------------------------------------------------------
\* C28
\* ------------------------------------------------------------------------

\* The artifacts and the errors of compiling the source files, in order.
RECURSIVE OwnFiles(_)
OwnFiles(files) ==
    IF files = << >> THEN << >>
    ELSE CompileFileFiles(platform, config, modules[Head(files)], Head(files))
             \o OwnFiles(Tail(files))

RECURSIVE OwnErrors(_)
OwnErrors(files) ==
    IF files = << >> THEN << >>
    ELSE CompileFileErrors(platform, modules[Head(files)], Head(files))
             \o OwnErrors(Tail(files))

\* The order of the steps of a run: from each step, the steps that may
\* follow it.
StepsInOrder(c) ==
    \/ /\ pc[c] = "idle" /\ pc'[c] = "loadExistingUiDefs"
    \/ /\ pc[c] = "loadExistingUiDefs" /\ pc'[c] = "ensureOutputDir"
    \/ /\ pc[c] = "ensureOutputDir"
       /\ pc'[c] = IF config.clean THEN "cleanOutputDir" ELSE "findSourceFiles"
    \/ /\ pc[c] = "cleanOutputDir" /\ pc'[c] = "findSourceFiles"
    \/ /\ pc[c] = "findSourceFiles" /\ pc'[c] = "compileFile"
    \/ /\ pc[c] = "compileFile"
       /\ pc'[c] = IF fileIdx[c] <= Len(sourceFiles[c]) THEN "import" ELSE "writeOutputFiles"
    \/ /\ pc[c] = "import" /\ pc'[c] = "compileFile"
    \/ /\ pc[c] = "writeOutputFiles" /\ pc'[c] \in {"generateUiDefs", "rejected"}
    \/ /\ pc[c] = "generateUiDefs" /\ pc'[c] = "done"

C29_EachCallOwnsItsState ==
    \A c \in Calls :
        Done(c) =>
            /\ result[c].files = OwnFiles(sourceFiles[c])
            /\ result[c].errors = OwnErrors(sourceFiles[c])
            /\ result[c].uiDefs = UiDefEntries(Preserved(c), OwnFiles(sourceFiles[c]))

\* ------------------------------------------------------------------------
\* C30
\* ------------------------------------------------------------------------

\* C30: after any sequence of registry operations (register, addRaw,
\* modify, addAnimation, addVariable, under any names) the namespace field
\* of the serialized document is the name of the namespace, a string.
C30_NamespaceFieldIsName ==
    \A n \in NsNames :
        ValueAt(buildNamespace(n), "namespace") = JsString(n)

====
